---- MODULE Spec2Model ----
(***************************************************************************)
(* Model of the marketplace backend's request handlers: product creation   *)
(* (uploading and pre-uploaded-descriptor variants), product and event     *)
(* deletion with best-effort media cleanup, product reviews with order     *)
(* linkage and rating aggregation, and public reviews with helpful votes.  *)
(*                                                                         *)
(* One action is one request handled from its first line to its response.  *)
(* The database and the media store are the state.  For each handler H,    *)
(* HOutcomes(req) is the set of states the handler can leave behind for    *)
(* the request req in the current state: one per way the external          *)
(* collaborators (database, media store) can answer the calls the handler  *)
(* makes.  The action H(req) moves to one of them.                         *)
(* Conventions for JavaScript values:                                      *)
(*   - a request field that may be of any type is a record [t, n]: t is    *)
(*     the typeof of the value and n its number (0 when not a number);     *)
(*   - ids are integers; 0 stands for a missing or malformed id;           *)
(*   - in a media descriptor, 0 stands for a missing or empty field;       *)
(*   - a quotient of two integers is kept exact, as a reduced fraction     *)
(*     [num, den] (den = 0: the field was never set).                      *)
(***************************************************************************)
EXTENDS Integers, Sequences, FiniteSets, TLC

VARIABLES
    products,        \* Product collection: id -> [images, videos, reviews, ratings]
    nextProductId,   \* next _id the database gives to a created product
    events,          \* Event collection: id -> [images]
    nextEventId,     \* next _id the database gives to a created event
    orders,          \* Order collection: id -> [cart], a line is [productId, isReviewed]
    publicReviews,   \* PublicReview collection: id -> [rating, helpfulUp, helpfulDown]
    nextReviewId,    \* next _id the database gives to a created public review
    blogs,           \* Blog collection: id -> [image]
    nextBlogId,      \* next _id the database gives to a created blog
    bookings,        \* Booking collection: id -> [name, email, phone, bookingDateTime, message]
    nextBookingId,   \* next _id the database gives to a created booking
    mails,           \* the messages the mail service accepted, in order: [email, name]
    assets,          \* public_ids held by the media store
    nextPublicId,    \* next public_id the media store gives to an upload
    clock,           \* what new Date() returns
    last,            \* the latest request's response: [op, status, msg]
    trace,           \* the calls the latest request made to the media store and
                     \* the database writes it issued, in order: [k, id, arg, ok]
    inflight         \* requests between two awaits, where handlers are taken step
                     \* by step: slot -> [pc, req, doc]

vars == <<products, nextProductId, events, nextEventId, orders, publicReviews,
          nextReviewId, blogs, nextBlogId, bookings, nextBookingId, mails, assets,
          nextPublicId, clock, last, trace, inflight>>

dbVars == <<products, nextProductId, events, nextEventId, orders, publicReviews,
            nextReviewId, blogs, nextBlogId, bookings, nextBookingId>>

(***************************************************************************)
(* Bounds of the model.                                                    *)
(***************************************************************************)
MaxProducts == 1     \* products created in one run
MaxEvents == 1       \* events created in one run
MaxUploads == 2      \* uploads the media store accepts in one run
MaxTime == 1         \* last value of the clock
MaxVotes == 2        \* cap of a helpful counter
MaxPublicReviews == 1 \* public reviews created in one run
MaxImages == 2       \* longest array a request carries in a media field
MaxBlogs == 1        \* blogs created in one run
MaxBookings == 2     \* bookings created in one run
MaxSlots == 2        \* requests in flight at once, where handlers are taken step by step

(***************************************************************************)
(* Program constants.                                                      *)
(***************************************************************************)
MinRating == 1
MaxRating == 5

Users == {"u1", "u2"}
Comments == {"good", "bad"}
Shops == {"s1"}
\* shop.seller._id of each shop
SellerOf == [shop \in Shops |-> "u1"]

\* the requests in flight and the slot of a request that has not arrived
Slots == 1..MaxSlots
Idle == [pc |-> "idle"]

\* JavaScript values of a request field
Num(n) == [t |-> "number", n |-> n]
Str == [t |-> "string", n |-> 0]           \* a non-empty string such as "5"
Undefined == [t |-> "undefined", n |-> 0]
Truthy(v) == IF v.t = "number" THEN v.n # 0 ELSE v.t = "string"

RatingInputs == {Num(n) : n \in (MinRating - 1)..(MaxRating + 1)} \cup {Str, Undefined}

\* mongoose.Types.ObjectId.isValid
ObjectIdIsValid(id) == id # 0

NoRatings == [num |-> 0, den |-> 0]

RECURSIVE GCD(_, _)
GCD(a, b) == IF b = 0 THEN a ELSE GCD(b, a % b)

\* JavaScript's a / b for integers a >= 0, b >= 0, kept exact
Divide(a, b) ==
    IF b = 0 THEN [num |-> 0, den |-> 0]
    ELSE LET g == GCD(a, b) IN [num |-> a \div g, den |-> b \div g]

Reply(op, status, msg) == [op |-> op, status |-> status, msg |-> msg]

\* one call to the media store or one database write: arg is the payload of an
\* upload and the resource type of a destroy
Effect(k, id, arg, ok) == [k |-> k, id |-> id, arg |-> arg, ok |-> ok]

\* the current state, as the record a handler's outcome is built from
Here ==
    [products |-> products, nextProductId |-> nextProductId, events |-> events,
     nextEventId |-> nextEventId, orders |-> orders, publicReviews |-> publicReviews,
     nextReviewId |-> nextReviewId, blogs |-> blogs, nextBlogId |-> nextBlogId,
     bookings |-> bookings, nextBookingId |-> nextBookingId, mails |-> mails,
     assets |-> assets, nextPublicId |-> nextPublicId, last |-> last, trace |-> trace]

\* the handler answers; calls are the effects it had
Answered(st, op, status, msg, calls) ==
    [st EXCEPT !.last = Reply(op, status, msg), !.trace = calls]

\* the handler answers with an error before any call
Rejected(op, status, msg) == Answered(Here, op, status, msg, <<>>)

\* the step of a handler to the outcome o
Apply(o) ==
    /\ products' = o.products
    /\ nextProductId' = o.nextProductId
    /\ events' = o.events
    /\ nextEventId' = o.nextEventId
    /\ orders' = o.orders
    /\ publicReviews' = o.publicReviews
    /\ nextReviewId' = o.nextReviewId
    /\ blogs' = o.blogs
    /\ nextBlogId' = o.nextBlogId
    /\ bookings' = o.bookings
    /\ nextBookingId' = o.nextBookingId
    /\ mails' = o.mails
    /\ assets' = o.assets
    /\ nextPublicId' = o.nextPublicId
    /\ last' = o.last
    /\ trace' = o.trace
    /\ UNCHANGED <<clock, inflight>>

(***************************************************************************)
(* PUT /create-new-review                                                  *)
(***************************************************************************)
\* a validation that forgets the upper bound
RatingIsValidNoUpperBound(rating) ==
    ~(rating.t # "number" \/ rating.n < MinRating)

\* the rating passes the handler's validation
RatingIsValid(rating) ==
    ~(rating.t # "number" \/ rating.n < MinRating \/ rating.n > MaxRating)

\* a check that only asks whether the order has lines with a product
isProductInOrderAnyLine(order, productId) ==
    \E i \in 1..Len(order.cart) : order.cart[i].productId # 0

\* order.cart.some(item => item && item.productId && item.productId.toString() === productId)
isProductInOrder(order, productId) ==
    \E i \in 1..Len(order.cart) :
        /\ order.cart[i].productId # 0
        /\ order.cart[i].productId = productId

\* index of product.reviews.find(rev => rev.user === user), 0 when there is none
existingReview(reviews, user) ==
    IF \E i \in 1..Len(reviews) : reviews[i].user = user
    THEN CHOOSE i \in 1..Len(reviews) :
            /\ reviews[i].user = user
            /\ \A j \in 1..(i - 1) : reviews[j].user # user
    ELSE 0

\* a handler that always pushes
UpsertReviewAlwaysPush(reviews, user, rating, comment, productId, now) ==
    Append(reviews, [user |-> user, rating |-> rating, comment |-> comment,
                     productId |-> productId, createdAt |-> now])

\* the review list after the handler's edit-or-push
UpsertReview(reviews, user, rating, comment, productId, now) ==
    LET i == existingReview(reviews, user) IN
    IF i # 0
    THEN [reviews EXCEPT ![i].rating = rating,
                         ![i].comment = comment,
                         ![i].createdAt = now]
    ELSE Append(reviews, [user |-> user, rating |-> rating, comment |-> comment,
                          productId |-> productId, createdAt |-> now])

RECURSIVE totalRating(_)
\* product.reviews.reduce((sum, review) => sum + review.rating, 0)
totalRating(reviews) ==
    IF reviews = <<>> THEN 0
    ELSE totalRating(SubSeq(reviews, 1, Len(reviews) - 1)) + reviews[Len(reviews)].rating

\* a mean over the number of reviews before the push
AverageRatingOldCount(reviews) ==
    Divide(totalRating(reviews), IF Len(reviews) > 1 THEN Len(reviews) - 1 ELSE 1)

\* product.ratings = totalRating / product.reviews.length
AverageRating(reviews) == Divide(totalRating(reviews), Len(reviews))

\* the positional update cart.$.isReviewed, which sets the first matching line only
MarkReviewedFirstLine(order, productId) ==
    [order EXCEPT !.cart =
        [i \in 1..Len(order.cart) |->
            IF /\ order.cart[i].productId = productId
               /\ \A j \in 1..(i - 1) : order.cart[j].productId # productId
            THEN [order.cart[i] EXCEPT !.isReviewed = TRUE]
            ELSE order.cart[i]]]

\* $set cart.$[elem].isReviewed = true, arrayFilters elem.productId = productId
MarkReviewed(order, productId) ==
    [order EXCEPT !.cart =
        [i \in 1..Len(order.cart) |->
            IF order.cart[i].productId = productId
            THEN [order.cart[i] EXCEPT !.isReviewed = TRUE]
            ELSE order.cart[i]]]

ReviewRequests ==
    [user : Users, rating : RatingInputs, comment : Comments,
     productId : 0..(MaxProducts + 1), orderId : 0..3]

\* a handler that gives up the product write when the order write throws
WriteReviewRollback(req) ==
    LET op == "create-new-review"
        newReviews == UpsertReview(products[req.productId].reviews, req.user,
                                   req.rating.n, req.comment, req.productId, clock)
        saved == [Here EXCEPT !.products[req.productId].reviews = newReviews,
                              !.products[req.productId].ratings = AverageRating(newReviews)]
        marked == [saved EXCEPT !.orders[req.orderId] =
                                    MarkReviewed(orders[req.orderId], req.productId)]
    IN
    {Answered(Here, op, 400, "product.save failed",
              <<Effect("save-product", req.productId, "", FALSE)>>),
     Answered(Here, op, 400, "Order.findByIdAndUpdate failed",
              <<Effect("save-product", req.productId, "", TRUE),
                Effect("update-order", req.orderId, "", FALSE)>>),
     Answered(marked, op, 200, "Reviewed successfully!",
              <<Effect("save-product", req.productId, "", TRUE),
                Effect("update-order", req.orderId, "", TRUE)>>)}

\* the handler from the upsert on, for a request that passed every check:
\* product.save throws, or it succeeds and Order.findByIdAndUpdate throws, or
\* both succeed
WriteReview(req) ==
    LET op == "create-new-review"
        newReviews == UpsertReview(products[req.productId].reviews, req.user,
                                   req.rating.n, req.comment, req.productId, clock)
        saved == [Here EXCEPT !.products[req.productId].reviews = newReviews,
                              !.products[req.productId].ratings = AverageRating(newReviews)]
        marked == [saved EXCEPT !.orders[req.orderId] =
                                    MarkReviewed(orders[req.orderId], req.productId)]
    IN
    {Answered(Here, op, 400, "product.save failed",
              <<Effect("save-product", req.productId, "", FALSE)>>),
     Answered(saved, op, 400, "Order.findByIdAndUpdate failed",
              <<Effect("save-product", req.productId, "", TRUE),
                Effect("update-order", req.orderId, "", FALSE)>>),
     Answered(marked, op, 200, "Reviewed successfully!",
              <<Effect("save-product", req.productId, "", TRUE),
                Effect("update-order", req.orderId, "", TRUE)>>)}

\* a handler that also asks whether the order is the reviewer's, the first
\* order being the first user's and every other order the second user's
CreateNewReviewOutcomesOwnOrder(req) ==
    LET op == "create-new-review" IN
    IF ~ObjectIdIsValid(req.productId) \/ ~ObjectIdIsValid(req.orderId)
    THEN {Rejected(op, 400, "Invalid product or order ID")}
    ELSE IF ~RatingIsValid(req.rating)
    THEN {Rejected(op, 400, "Rating must be a number between 1 and 5")}
    ELSE IF req.productId \notin DOMAIN products
    THEN {Rejected(op, 404, "Product not found")}
    ELSE IF req.orderId \notin DOMAIN orders
    THEN {Rejected(op, 404, "Order not found")}
    ELSE IF req.user # (IF req.orderId = 1 THEN "u1" ELSE "u2")
    THEN {Rejected(op, 403, "Not your order")}
    ELSE IF ~isProductInOrder(orders[req.orderId], req.productId)
    THEN {Rejected(op, 400, "Product not found in order")}
    ELSE WriteReview(req)

\* req: the body and the authenticated user
CreateNewReviewOutcomes(req) ==
    LET op == "create-new-review" IN
    IF ~ObjectIdIsValid(req.productId) \/ ~ObjectIdIsValid(req.orderId)
    THEN {Rejected(op, 400, "Invalid product or order ID")}
    ELSE IF ~RatingIsValid(req.rating)
    THEN {Rejected(op, 400, "Rating must be a number between 1 and 5")}
    ELSE IF req.productId \notin DOMAIN products
    THEN {Rejected(op, 404, "Product not found")}
    ELSE IF req.orderId \notin DOMAIN orders
    THEN {Rejected(op, 404, "Order not found")}
    ELSE IF ~isProductInOrder(orders[req.orderId], req.productId)
    THEN {Rejected(op, 400, "Product not found in order")}
    ELSE WriteReview(req)

CreateNewReview(req) == \E o \in CreateNewReviewOutcomes(req) : Apply(o)

\* time passes between two requests
Tick ==
    /\ clock < MaxTime
    /\ clock' = clock + 1
    /\ UNCHANGED <<dbVars, mails, assets, nextPublicId, last, trace, inflight>>

(***************************************************************************)
(* Media fields of a request body.  A field is absent, a string, an array  *)
(* or another object; an array element is a string (a payload to upload)   *)
(* or an object with the fields public_id and url.                         *)
(***************************************************************************)
StrItem(s) == [t |-> "string", s |-> s, public_id |-> 0, url |-> 0]
Desc(p, u) == [t |-> "object", s |-> "", public_id |-> p, url |-> u]
\* the element null, as in the JSON array [null]
NullItem == [t |-> "null", s |-> "", public_id |-> 0, url |-> 0]

Absent == [t |-> "undefined", s |-> "", a |-> <<>>]
StrVal(s) == [t |-> "string", s |-> s, a |-> <<>>]
ArrVal(a) == [t |-> "array", s |-> "", a |-> a]
NumVal == [t |-> "number", s |-> "", a |-> <<>>]
ObjVal == [t |-> "object", s |-> "", a |-> <<>>]

SeqsUpTo(S, n) == UNION {[1..k -> S] : k \in 0..n}

\* strings a client sends in a media field
BareStrings == {"http://x/1.png", "{not valid json"}
JsonStrings ==
    {"[]", "[{\"public_id\":1,\"url\":1}]", "[{\"url\":1}]", "[null]", "\"abc\"", "5"}
StringInputs == BareStrings \cup JsonStrings
\* payloads a client sends as the elements of an array
ArrayPayloads == {"data:image/png;base64,AA", "data:image/png;base64,BB"}

\* JSON.parse on the strings above: [ok |-> FALSE] is a SyntaxError
JSONParse(s) ==
    CASE s = "[]" -> [ok |-> TRUE, v |-> ArrVal(<<>>)]
      [] s = "[{\"public_id\":1,\"url\":1}]" -> [ok |-> TRUE, v |-> ArrVal(<<Desc(1, 1)>>)]
      [] s = "[{\"url\":1}]" -> [ok |-> TRUE, v |-> ArrVal(<<Desc(0, 1)>>)]
      [] s = "[null]" -> [ok |-> TRUE, v |-> ArrVal(<<NullItem>>)]
      [] s = "\"abc\"" -> [ok |-> TRUE, v |-> StrVal("abc")]
      [] s = "5" -> [ok |-> TRUE, v |-> NumVal]
      [] OTHER -> [ok |-> FALSE, v |-> Absent]

\* for (const x of v): the elements of an array, the characters of a string;
\* anything else is not iterable (a TypeError)
Iterable(v) == v.t \in {"array", "string"}
Chars(s) == IF s = "abc" THEN <<StrItem("a"), StrItem("b"), StrItem("c")>> ELSE <<>>
Items(v) == IF v.t = "array" THEN v.a ELSE Chars(v.s)

\* the descriptor the database keeps of an array element
Stored(item) == [public_id |-> item.public_id, url |-> item.url]
StoredAll(items) == [i \in 1..Len(items) |-> Stored(items[i])]

NewProduct(images, videos) ==
    [images |-> images, videos |-> videos, reviews |-> <<>>, ratings |-> NoRatings]

\* location is missing or blank: !location || location.trim() === ""
Locations == {"", "  ", "Nairobi"}
IsBlank(location) == location \in {"", "  "}
ShopIds == {"", "s1", "s9"}

\* the media store's upload of the k-th payload of a request: its public_id and url
Uploaded(k) == [public_id |-> nextPublicId + k - 1, url |-> nextPublicId + k - 1]

(***************************************************************************)
(* POST /create-product, uploading variant                                 *)
(***************************************************************************)
\* a normalization that keeps arrays only
imagesArrayOfArraysOnly(images) ==
    IF images.t = "array" THEN images.a ELSE <<>>

\* the handler's imagesArray
imagesArray(images) ==
    IF images.t = "string" THEN <<StrItem(images.s)>>
    ELSE IF images.t = "array" THEN images.a
    ELSE <<>>

UploadImageInputs ==
    {Absent, ObjVal} \cup {StrVal(s) : s \in StringInputs}
        \cup {ArrVal(a) : a \in SeqsUpTo({StrItem(s) : s \in ArrayPayloads}, MaxImages)}

\* every media field with a valid shop and location, and two media fields with
\* every shop and location
UploadCreateRequests ==
    [shopId : {"s1"}, location : {"Nairobi"}, images : UploadImageInputs]
        \cup [shopId : ShopIds, location : Locations,
              images : {Absent, StrVal("http://x/1.png")}]

\* the first n uploads of a request, all successful: the calls and their results
Uploads(arr, n) == [k \in 1..n |-> Effect("upload", nextPublicId + k - 1, arr[k].s, TRUE)]
Links(n) == [k \in 1..n |-> Uploaded(k)]

\* the media store after the first n uploads of a request
AfterUploads(n) ==
    [Here EXCEPT !.assets = assets \cup {nextPublicId + k - 1 : k \in 1..n},
                 !.nextPublicId = nextPublicId + n]

\* the upload loop stops at the first upload that throws: the loop's runs are
\* the numbers of uploads done before a failure, and the full run
FailingRuns(arr) == {n \in 0..(Len(arr) - 1) : nextPublicId + n - 1 <= MaxUploads}
FullRuns(arr) == {n \in {Len(arr)} : nextPublicId + n - 1 <= MaxUploads}

\* the upload loop and Product.create, for a request that passed the checks
UploadAndCreateProduct(req) ==
    LET op == "create-product"
        arr == imagesArray(req.images)
    IN
    {Answered(AfterUploads(n), op, 500, "Image upload failed",
              Append(Uploads(arr, n), Effect("upload", 0, arr[n + 1].s, FALSE)))
        : n \in FailingRuns(arr)}
    \cup
    {Answered(AfterUploads(n), op, 400, "Product.create failed",
              Append(Uploads(arr, n), Effect("create-product", 0, "", FALSE)))
        : n \in FullRuns(arr)}
    \cup
    {Answered([AfterUploads(n) EXCEPT
                  !.products = products @@ (nextProductId :> NewProduct(Links(n), <<>>)),
                  !.nextProductId = nextProductId + 1],
              op, 201, "",
              Append(Uploads(arr, n), Effect("create-product", nextProductId, "", TRUE)))
        : n \in IF nextProductId > MaxProducts THEN {} ELSE FullRuns(arr)}

CreateProductUploadOutcomes(req) ==
    LET op == "create-product" IN
    IF IsBlank(req.location)
    THEN {Rejected(op, 400, "Product location is required")}
    ELSE IF req.shopId = ""
    THEN {Rejected(op, 400, "Shop ID is required")}
    ELSE IF req.shopId \notin Shops
    THEN {Rejected(op, 400, "Shop Id is invalid!")}
    ELSE UploadAndCreateProduct(req)

CreateProductUpload(req) == \E o \in CreateProductUploadOutcomes(req) : Apply(o)

(***************************************************************************)
(* POST /create-product, variant taking descriptors of uploaded media      *)
(***************************************************************************)
\* a normalization that keeps an unparseable string as one element
parseMediaArrayKeepsString(media) ==
    IF media.t = "undefined" \/ (media.t = "string" /\ media.s = "") THEN ArrVal(<<>>)
    ELSE IF media.t = "string"
    THEN IF JSONParse(media.s).ok THEN JSONParse(media.s).v
         ELSE ArrVal(<<StrItem(media.s)>>)
    ELSE IF media.t = "array" THEN media
    ELSE ArrVal(<<>>)

\* parseMediaArray: absent -> [], a string -> JSON.parse or [] when it throws,
\* an array -> itself, anything else -> []
parseMediaArray(media) ==
    IF media.t = "undefined" \/ (media.t = "string" /\ media.s = "") THEN ArrVal(<<>>)
    ELSE IF media.t = "string"
    THEN IF JSONParse(media.s).ok THEN JSONParse(media.s).v ELSE ArrVal(<<>>)
    ELSE IF media.t = "array" THEN media
    ELSE ArrVal(<<>>)

\* !img.public_id || !img.url
BadDescriptor(item) == item.public_id = 0 \/ item.url = 0

\* the validation loop over a list: "ok" when it ends, "invalid" when it returns
\* at an element without public_id or url, "throws" when it reaches an element
\* that is null first (reading a property of null is a TypeError)
ValidationLoop(items) ==
    LET stops == {i \in 1..Len(items) : items[i].t = "null" \/ BadDescriptor(items[i])} IN
    IF stops = {} THEN "ok"
    ELSE LET first == CHOOSE i \in stops : \A j \in stops : i <= j IN
         IF items[first].t = "null" THEN "throws" ELSE "invalid"

DescriptorInputs ==
    {Absent, ObjVal} \cup {StrVal(s) : s \in StringInputs}
        \cup {ArrVal(a) : a \in {<<Desc(1, 1)>>, <<Desc(1, 1), Desc(2, 2)>>,
                                 <<Desc(1, 0)>>, <<StrItem("http://x/1.png")>>,
                                 <<Desc(1, 1), NullItem>>}}

DescriptorCreateRequests ==
    [shopId : {"s1"}, location : {"Nairobi"}, images : DescriptorInputs,
     videos : DescriptorInputs]
        \cup [shopId : ShopIds, location : Locations,
              images : {Absent, ArrVal(<<Desc(1, 1)>>)}, videos : {Absent}]

\* Product.create with the validated lists: it throws or it succeeds
CreateWithDescriptors(imagesLinks, videoLinks) ==
    LET op == "create-product-descriptors" IN
    {Answered(Here, op, 500, "Product.create failed",
              <<Effect("create-product", 0, "", FALSE)>>)}
    \cup
    IF nextProductId > MaxProducts THEN {}
    ELSE {Answered([Here EXCEPT
                       !.products = products @@
                           (nextProductId :> NewProduct(StoredAll(Items(imagesLinks)),
                                                        StoredAll(Items(videoLinks)))),
                       !.nextProductId = nextProductId + 1],
                   op, 201, "", <<Effect("create-product", nextProductId, "", TRUE)>>)}

CreateProductDescriptorsOutcomes(req) ==
    LET op == "create-product-descriptors"
        imagesLinks == parseMediaArray(req.images)
        videoLinks == parseMediaArray(req.videos)
    IN
    IF IsBlank(req.location)
    THEN {Rejected(op, 400, "Product location is required")}
    ELSE IF req.shopId = ""
    THEN {Rejected(op, 400, "Shop ID is required")}
    ELSE IF req.shopId \notin Shops
    THEN {Rejected(op, 400, "Invalid Shop ID")}
    ELSE IF ~Iterable(imagesLinks)
    THEN {Rejected(op, 500, "imagesLinks is not iterable")}
    ELSE IF ValidationLoop(Items(imagesLinks)) = "throws"
    THEN {Rejected(op, 500, "Cannot read properties of null")}
    ELSE IF ValidationLoop(Items(imagesLinks)) = "invalid"
    THEN {Rejected(op, 400, "Invalid image data format")}
    ELSE IF ~Iterable(videoLinks)
    THEN {Rejected(op, 500, "videoLinks is not iterable")}
    ELSE IF ValidationLoop(Items(videoLinks)) = "throws"
    THEN {Rejected(op, 500, "Cannot read properties of null")}
    ELSE IF ValidationLoop(Items(videoLinks)) = "invalid"
    THEN {Rejected(op, 400, "Invalid video data format")}
    ELSE CreateWithDescriptors(imagesLinks, videoLinks)

CreateProductDescriptors(req) == \E o \in CreateProductDescriptorsOutcomes(req) : Apply(o)

(***************************************************************************)
(* Best-effort media cleanup: one destroy call per descriptor, each in its *)
(* own try/catch.  failed: the positions (offset + index) whose call throws*)
(***************************************************************************)
\* a loop that gives up at the first call that throws
DestroyUntilFailure(descs, offset, failed, kind) ==
    LET bad == {i \in 1..Len(descs) : (offset + i) \in failed}
        n == IF bad = {} THEN Len(descs)
             ELSE CHOOSE i \in bad : \A j \in bad : i <= j
    IN [i \in 1..n |->
           Effect("destroy", descs[i].public_id, kind, (offset + i) \notin failed)]

DestroyEach(descs, offset, failed, kind) ==
    [i \in 1..Len(descs) |->
        Effect("destroy", descs[i].public_id, kind, (offset + i) \notin failed)]

\* the public_ids the media store no longer holds after the calls
Destroyed(calls) == {calls[i].id : i \in {j \in 1..Len(calls) : calls[j].ok}}

\* the collection without the document id
Without(collection, id) == [x \in DOMAIN collection \ {id} |-> collection[x]]

(***************************************************************************)
(* DELETE /delete-shop-product/:id, images only                            *)
(***************************************************************************)
\* the cleanup loop and product.remove, for an existing product: any of the
\* destroy calls may throw, and the removal may throw
CleanupAndRemoveProduct(id) ==
    LET op == "delete-shop-product" IN
    {LET calls == DestroyEach(products[id].images, 0, failed, "image") IN
     IF removeOk
     THEN Answered([Here EXCEPT !.assets = assets \ Destroyed(calls),
                                !.products = Without(products, id)],
                   op, 200, "Product deleted successfully!",
                   Append(calls, Effect("remove-product", id, "", TRUE)))
     ELSE Answered([Here EXCEPT !.assets = assets \ Destroyed(calls)],
                   op, 400, "product.remove failed",
                   Append(calls, Effect("remove-product", id, "", FALSE)))
        : failed \in SUBSET (1..Len(products[id].images)), removeOk \in BOOLEAN}

DeleteShopProductOutcomes(id) ==
    IF id \notin DOMAIN products
    THEN {Rejected("delete-shop-product", 404, "Product not found with this id")}
    ELSE CleanupAndRemoveProduct(id)

DeleteShopProduct(id) == \E o \in DeleteShopProductOutcomes(id) : Apply(o)

(***************************************************************************)
(* DELETE /delete-shop-product/:id, images and videos                      *)
(***************************************************************************)
CleanupMediaAndRemoveProduct(id) ==
    LET op == "delete-shop-product-media" IN
    {LET calls == DestroyEach(products[id].images, 0, failed, "image")
                  \o DestroyEach(products[id].videos, Len(products[id].images),
                                 failed, "video")
     IN
     IF removeOk
     THEN Answered([Here EXCEPT !.assets = assets \ Destroyed(calls),
                                !.products = Without(products, id)],
                   op, 200, "Product deleted successfully!",
                   Append(calls, Effect("remove-product", id, "", TRUE)))
     ELSE Answered([Here EXCEPT !.assets = assets \ Destroyed(calls)],
                   op, 400, "product.remove failed",
                   Append(calls, Effect("remove-product", id, "", FALSE)))
        : failed \in SUBSET (1..(Len(products[id].images) + Len(products[id].videos))),
          removeOk \in BOOLEAN}

DeleteShopProductMediaOutcomes(id) ==
    IF id \notin DOMAIN products
    THEN {Rejected("delete-shop-product-media", 404, "Product not found with this id")}
    ELSE CleanupMediaAndRemoveProduct(id)

DeleteShopProductMedia(id) == \E o \in DeleteShopProductMediaOutcomes(id) : Apply(o)

(***************************************************************************)
(* POST /create-event (controller/event.js)                                *)
(***************************************************************************)
EventCreateRequests ==
    [shopId : {"s1"}, images : UploadImageInputs]
        \cup [shopId : ShopIds, images : {Absent, StrVal("http://x/1.png")}]

\* the upload loop and Event.create, for a request that passed the checks
UploadAndCreateEvent(req) ==
    LET op == "create-event"
        arr == imagesArray(req.images)
    IN
    {Answered(AfterUploads(n), op, 500, "upload failed",
              Append(Uploads(arr, n), Effect("upload", 0, arr[n + 1].s, FALSE)))
        : n \in FailingRuns(arr)}
    \cup
    {Answered(AfterUploads(n), op, 500, "Event.create failed",
              Append(Uploads(arr, n), Effect("create-event", 0, "", FALSE)))
        : n \in FullRuns(arr)}
    \cup
    {Answered([AfterUploads(n) EXCEPT
                  !.events = events @@
                      (nextEventId :> [images |-> Links(n), shopId |-> req.shopId]),
                  !.nextEventId = nextEventId + 1],
              op, 201, "",
              Append(Uploads(arr, n), Effect("create-event", nextEventId, "", TRUE)))
        : n \in IF nextEventId > MaxEvents THEN {} ELSE FullRuns(arr)}

CreateEventOutcomes(req) ==
    LET op == "create-event" IN
    IF req.shopId = ""
    THEN {Rejected(op, 400, "Shop ID is required.")}
    ELSE IF req.shopId \notin Shops
    THEN {Rejected(op, 400, "Invalid Shop ID.")}
    ELSE IF req.images.t \notin {"string", "array"}
    THEN {Rejected(op, 400, "Images must be a string or array.")}
    ELSE UploadAndCreateEvent(req)

CreateEvent(req) == \E o \in CreateEventOutcomes(req) : Apply(o)

(***************************************************************************)
(* DELETE /delete-shop-event/:id (controller/event.js)                     *)
(***************************************************************************)
CleanupAndRemoveEvent(id) ==
    LET op == "delete-shop-event" IN
    {LET calls == DestroyEach(events[id].images, 0, failed, "image") IN
     IF removeOk
     THEN Answered([Here EXCEPT !.assets = assets \ Destroyed(calls),
                                !.events = Without(events, id)],
                   op, 200, "Event deleted successfully!",
                   Append(calls, Effect("remove-event", id, "", TRUE)))
     ELSE Answered([Here EXCEPT !.assets = assets \ Destroyed(calls)],
                   op, 500, "event.remove failed",
                   Append(calls, Effect("remove-event", id, "", FALSE)))
        : failed \in SUBSET (1..Len(events[id].images)), removeOk \in BOOLEAN}

DeleteShopEventOutcomes(id) ==
    IF id \notin DOMAIN events
    THEN {Rejected("delete-shop-event", 404, "Event not found with this ID")}
    ELSE CleanupAndRemoveEvent(id)

DeleteShopEvent(id) == \E o \in DeleteShopEventOutcomes(id) : Apply(o)

(***************************************************************************)
(* POST /public: submit a public review                                    *)
(***************************************************************************)
PublicReviewRequests == [rating : RatingInputs, comment : {"", "good"}, name : {"", "Ann"}]

SubmitPublicReviewOutcomes(req) ==
    LET op == "public-review" IN
    IF ~Truthy(req.rating) \/ req.comment = "" \/ req.name = ""
    THEN {Rejected(op, 400, "Name, rating, and comment are required")}
    ELSE IF ~RatingIsValid(req.rating)
    THEN {Rejected(op, 400, "Rating must be a number between 1 and 5")}
    ELSE {Answered(Here, op, 500, "PublicReview.create failed",
                   <<Effect("create-review", 0, "", FALSE)>>)}
         \cup
         IF nextReviewId > MaxPublicReviews THEN {}
         ELSE {Answered([Here EXCEPT
                            !.publicReviews = publicReviews @@
                                (nextReviewId :> [rating |-> req.rating.n,
                                                  helpfulUp |-> 0, helpfulDown |-> 0]),
                            !.nextReviewId = nextReviewId + 1],
                        op, 201, "Thank you for your review!",
                        <<Effect("create-review", nextReviewId, "", TRUE)>>)}

SubmitPublicReview(req) == \E o \in SubmitPublicReviewOutcomes(req) : Apply(o)

(***************************************************************************)
(* POST /vote-helpful                                                      *)
(***************************************************************************)
VoteInputs == {"", "up", "down", "sideways"}

VoteRequests == [reviewId : 0..(MaxPublicReviews + 1), vote : VoteInputs]

\* a check that only asks for the two fields
VoteIsInvalidFieldsOnly(req) == req.reviewId = 0 \/ req.vote = ""

\* !reviewId || !vote || !["up", "down"].includes(vote)
VoteIsInvalid(req) == req.reviewId = 0 \/ req.vote = "" \/ req.vote \notin {"up", "down"}

\* the review after the handler's increment
Voted(review, vote) ==
    IF vote = "up" THEN [review EXCEPT !.helpfulUp = review.helpfulUp + 1]
    ELSE IF vote = "down" THEN [review EXCEPT !.helpfulDown = review.helpfulDown + 1]
    ELSE review

VoteHelpfulOutcomes(req) ==
    LET op == "vote-helpful" IN
    IF VoteIsInvalid(req)
    THEN {Rejected(op, 400, "Invalid vote data")}
    ELSE IF req.reviewId \notin DOMAIN publicReviews
    THEN {Rejected(op, 404, "Review not found")}
    ELSE LET review == Voted(publicReviews[req.reviewId], req.vote) IN
         IF review.helpfulUp > MaxVotes \/ review.helpfulDown > MaxVotes THEN {}
         ELSE {Answered(Here, op, 500, "review.save failed",
                        <<Effect("save-review", req.reviewId, "", FALSE)>>),
               Answered([Here EXCEPT !.publicReviews[req.reviewId] = review],
                        op, 200, "Vote recorded",
                        <<Effect("save-review", req.reviewId, "", TRUE)>>)}

VoteHelpful(req) == \E o \in VoteHelpfulOutcomes(req) : Apply(o)

(***************************************************************************)
(* POST /create-event with uploaded files (model/blog.js): the uploads run *)
(* concurrently under Promise.all.  failed: the positions whose upload     *)
(* rejects; the other uploads complete, whatever the handler answers.      *)
(***************************************************************************)
TextInputs == {"", "x"}
DateInputs == {"", "soon", "2024-01-01"}
\* isNaN(new Date(d))
IsInvalidDate(d) == d = "soon"

FileLists == SeqsUpTo({StrItem(f) : f \in ArrayPayloads}, MaxImages)

ShopEventRequests ==
    [user : Users, shopId : {"s1"}, name : {"x"}, description : {"x"},
     startDate : {"2024-01-01"}, finishDate : {"2024-01-01"}, files : FileLists]
        \cup [user : {"u1"}, shopId : ShopIds, name : TextInputs, description : TextInputs,
              startDate : DateInputs, finishDate : DateInputs,
              files : {<<>>, <<StrItem("data:image/png;base64,AA")>>}]

\* the positions among the first i that did not fail
Completed(i, failed) == {k \in 1..i : k \notin failed}

\* the public_id the media store gives to the i-th upload of the request
PublicIdOf(i, failed) == nextPublicId + Cardinality(Completed(i, failed)) - 1

\* req.files.map(uploadToCloudinary): one upload per file, each settling on its own
UploadsAll(files, failed) ==
    [i \in 1..Len(files) |->
        IF i \in failed THEN Effect("upload", 0, files[i].s, FALSE)
        ELSE Effect("upload", PublicIdOf(i, failed), files[i].s, TRUE)]

\* the descriptors Promise.all resolves to when nothing failed
LinksAll(files) == [i \in 1..Len(files) |-> Uploaded(i)]

\* the media store after the uploads that completed
AfterUploadsAll(files, failed) ==
    LET n == Cardinality(Completed(Len(files), failed)) IN
    [Here EXCEPT !.assets = assets \cup {nextPublicId + k - 1 : k \in 1..n},
                 !.nextPublicId = nextPublicId + n]

\* the sets of failing positions the media store's capacity allows
FailureSets(files) ==
    {failed \in SUBSET (1..Len(files)) :
        nextPublicId + Cardinality(Completed(Len(files), failed)) - 1 <= MaxUploads}

\* a handler that waits with Promise.allSettled and keeps what completed
UploadAllSettledAndCreateEvent(req) ==
    LET op == "create-shop-event" IN
    {Answered([AfterUploadsAll(req.files, failed) EXCEPT
                  !.events = events @@
                      (nextEventId :>
                          [images |-> [k \in 1..Cardinality(Completed(Len(req.files), failed))
                                          |-> Uploaded(k)],
                           shopId |-> req.shopId]),
                  !.nextEventId = nextEventId + 1],
              op, 201, "",
              Append(UploadsAll(req.files, failed),
                     Effect("create-event", nextEventId, "", TRUE)))
        : failed \in IF nextEventId > MaxEvents THEN {} ELSE FailureSets(req.files)}

\* Promise.all and Event.create, for a request that passed the checks
UploadAllAndCreateEvent(req) ==
    LET op == "create-shop-event" IN
    {Answered(AfterUploadsAll(req.files, failed), op, 500, "upload failed",
              UploadsAll(req.files, failed))
        : failed \in {f \in FailureSets(req.files) : f # {}}}
    \cup
    {Answered(AfterUploadsAll(req.files, {}), op, 500, "Event.create failed",
              Append(UploadsAll(req.files, {}), Effect("create-event", 0, "", FALSE)))
        : failed \in {f \in FailureSets(req.files) : f = {}}}
    \cup
    {Answered([AfterUploadsAll(req.files, {}) EXCEPT
                  !.events = events @@
                      (nextEventId :> [images |-> LinksAll(req.files),
                                       shopId |-> req.shopId]),
                  !.nextEventId = nextEventId + 1],
              op, 201, "",
              Append(UploadsAll(req.files, {}), Effect("create-event", nextEventId, "", TRUE)))
        : failed \in IF nextEventId > MaxEvents THEN {}
                     ELSE {f \in FailureSets(req.files) : f = {}}}

CreateShopEventOutcomes(req) ==
    LET op == "create-shop-event" IN
    IF \/ req.shopId = "" \/ req.name = "" \/ req.description = ""
       \/ req.startDate = "" \/ req.finishDate = "" \/ Len(req.files) = 0
    THEN {Rejected(op, 400, "All fields are required")}
    ELSE IF IsInvalidDate(req.startDate) \/ IsInvalidDate(req.finishDate)
    THEN {Rejected(op, 400, "Invalid date format")}
    ELSE IF req.shopId \notin Shops
    THEN {Rejected(op, 404, "Shop not found.")}
    ELSE IF SellerOf[req.shopId] # req.user
    THEN {Rejected(op, 403, "Unauthorized to add event to this shop")}
    ELSE UploadAllAndCreateEvent(req)

CreateShopEvent(req) == \E o \in CreateShopEventOutcomes(req) : Apply(o)

(***************************************************************************)
(* DELETE /delete-shop-event/:id with the ownership check (model/blog.js)  *)
(***************************************************************************)
OwnedEventDeleteRequests == [user : Users, id : 1..(MaxEvents + 1)]

CleanupAndRemoveOwnedEvent(id) ==
    LET op == "delete-own-shop-event" IN
    {LET calls == DestroyEach(events[id].images, 0, failed, "image") IN
     IF removeOk
     THEN Answered([Here EXCEPT !.assets = assets \ Destroyed(calls),
                                !.events = Without(events, id)],
                   op, 200, "Event deleted successfully!",
                   Append(calls, Effect("remove-event", id, "", TRUE)))
     ELSE Answered([Here EXCEPT !.assets = assets \ Destroyed(calls)],
                   op, 500, "event.remove failed",
                   Append(calls, Effect("remove-event", id, "", FALSE)))
        : failed \in SUBSET (1..Len(events[id].images)), removeOk \in BOOLEAN}

\* a handler that cleans up without asking whose event it is
DeleteOwnedEventUnchecked(req) ==
    IF req.id \notin DOMAIN events
    THEN {Rejected("delete-own-shop-event", 404, "Event not found with this ID")}
    ELSE CleanupAndRemoveOwnedEvent(req.id)

DeleteOwnedEventOutcomes(req) ==
    LET op == "delete-own-shop-event" IN
    IF req.id \notin DOMAIN events
    THEN {Rejected(op, 404, "Event not found with this ID")}
    ELSE IF events[req.id].shopId \notin Shops
    THEN {Rejected(op, 404, "Shop not found for this event")}
    ELSE IF SellerOf[events[req.id].shopId] # req.user
    THEN {Rejected(op, 403, "Unauthorized: You can't delete this event.")}
    ELSE CleanupAndRemoveOwnedEvent(req.id)

DeleteOwnedEvent(req) == \E o \in DeleteOwnedEventOutcomes(req) : Apply(o)

(***************************************************************************)
(* DELETE /delete-product/:id, admin (controller/publicReview.js)          *)
(***************************************************************************)
AdminCleanupAndDeleteProduct(id) ==
    LET op == "admin-delete-product" IN
    {LET calls == DestroyEach(products[id].images, 0, failed, "image")
                  \o DestroyEach(products[id].videos, Len(products[id].images),
                                 failed, "video")
     IN
     IF removeOk
     THEN Answered([Here EXCEPT !.assets = assets \ Destroyed(calls),
                                !.products = Without(products, id)],
                   op, 200, "Product deleted by admin successfully!",
                   Append(calls, Effect("remove-product", id, "", TRUE)))
     ELSE Answered([Here EXCEPT !.assets = assets \ Destroyed(calls)],
                   op, 500, "Product.findByIdAndDelete failed",
                   Append(calls, Effect("remove-product", id, "", FALSE)))
        : failed \in SUBSET (1..(Len(products[id].images) + Len(products[id].videos))),
          removeOk \in BOOLEAN}

AdminDeleteProductOutcomes(id) ==
    IF id \notin DOMAIN products
    THEN {Rejected("admin-delete-product", 404, "Product not found")}
    ELSE AdminCleanupAndDeleteProduct(id)

AdminDeleteProduct(id) == \E o \in AdminDeleteProductOutcomes(id) : Apply(o)

(***************************************************************************)
(* POST /create-blog (model/blog.js).  The schema has no images field, so  *)
(* the stored blog keeps the url of the first upload only, in image.       *)
(***************************************************************************)
BlogRequests ==
    [title : {"x"}, content : {"x"}, images : UploadImageInputs]
        \cup [title : TextInputs, content : TextInputs,
              images : {Absent, StrVal("http://x/1.png")}]

\* the handler's images
blogImages(images) ==
    IF images.t = "string" THEN <<StrItem(images.s)>>
    ELSE IF images.t = "array" THEN images.a
    ELSE <<>>

\* imagesLinks.length > 0 ? imagesLinks[0].url : "" (0 stands for "")
MainImage(imagesLinks) == IF Len(imagesLinks) > 0 THEN imagesLinks[1].url ELSE 0

\* blogSchema: title and content are required
BlogIsValid(req) == req.title # "" /\ req.content # ""

\* the whole try block: whatever throws in it is answered by the catch
CreateBlogOutcomes(req) ==
    LET op == "create-blog"
        arr == blogImages(req.images)
    IN
    {Answered(AfterUploads(n), op, 400, "upload failed",
              Append(Uploads(arr, n), Effect("upload", 0, arr[n + 1].s, FALSE)))
        : n \in FailingRuns(arr)}
    \cup
    {Answered(AfterUploads(n), op, 400,
              IF BlogIsValid(req) THEN "Blog.create failed" ELSE "Blog validation failed",
              Append(Uploads(arr, n), Effect("create-blog", 0, "", FALSE)))
        : n \in FullRuns(arr)}
    \cup
    {Answered([AfterUploads(n) EXCEPT
                  !.blogs = blogs @@ (nextBlogId :> [image |-> MainImage(Links(n))]),
                  !.nextBlogId = nextBlogId + 1],
              op, 201, "",
              Append(Uploads(arr, n), Effect("create-blog", nextBlogId, "", TRUE)))
        : n \in IF nextBlogId > MaxBlogs \/ ~BlogIsValid(req) THEN {} ELSE FullRuns(arr)}

CreateBlog(req) == \E o \in CreateBlogOutcomes(req) : Apply(o)

(***************************************************************************)
(* DELETE /delete-blog/:id (model/blog.js): the media cleanup is commented *)
(* out in the source, the handler only deletes the record.                 *)
(***************************************************************************)
\* the media of a blog: what the media store holds under the blog's image url
\* (an upload's url and public_id are the same number here)
BlogMedia(blog) == {a \in assets : a = blog.image}

DeleteBlogOutcomes(id) ==
    LET op == "delete-blog" IN
    IF id \notin DOMAIN blogs
    THEN {Rejected(op, 404, "Blog not found with this ID")}
    ELSE {Answered([Here EXCEPT !.blogs = Without(blogs, id)],
                   op, 200, "Blog deleted successfully",
                   <<Effect("remove-blog", id, "", TRUE)>>),
          Answered(Here, op, 500, "blog.deleteOne failed",
                   <<Effect("remove-blog", id, "", FALSE)>>)}

DeleteBlog(id) == \E o \in DeleteBlogOutcomes(id) : Apply(o)

(***************************************************************************)
(* POST /create-booking (model/blog.js 92-155, model/booking.js).  The     *)
(* handler checks the fields, builds the date, awaits Booking.create and   *)
(* then awaits sendMail; whatever it throws reaches the error middleware   *)
(* through catchAsyncErrors.  sendMail is a collaborator outside the       *)
(* source: it resolves when the mail service accepted the message and      *)
(* rejects otherwise.                                                      *)
(***************************************************************************)
\* " " is a field that is only white space, "A@x" an address with a capital
\* letter, "late" a time that is none, an absent message is undefined
BookingRequests ==
    [name : {"", " ", "x"}, email : {"", "A@x", "a@x"}, phone : {"", " ", "7"},
     date : DateInputs, time : {"", "late", "10:00"},
     message : {Absent, StrVal(""), StrVal("hi ")}]

\* new Date(`${date}T${time}:00`): the date and the time it denotes
bookingDateTime(req) == [date |-> req.date, time |-> req.time]

\* isNaN(bookingDateTime)
IsInvalidDateTime(req) == IsInvalidDate(req.date) \/ req.time = "late"

\* the document Booking.create builds from its argument: the schema's trim and
\* lowercase setters are applied and an undefined message takes the default
BookingDoc(req) ==
    LET Trim(s) == IF s = " " THEN "" ELSE IF s = "hi " THEN "hi" ELSE s
        Lowercase(s) == IF s = "A@x" THEN "a@x" ELSE s
    IN
    [name |-> Trim(req.name),
     email |-> Lowercase(Trim(req.email)),
     phone |-> Trim(req.phone),
     bookingDateTime |-> bookingDateTime(req),
     message |-> IF req.message.t = "undefined" THEN "" ELSE Trim(req.message.s)]

\* the required validators, run on the document
BookingIsValid(doc) == doc.name # "" /\ doc.email # "" /\ doc.phone # ""

\* line 147 first, line 107 after it: the order the handler does not have
SendMailThenCreateBooking(req) ==
    LET op == "create-booking"
        doc == BookingDoc(req)
        sent == Effect("send-mail", 0, req.email, TRUE)
        mailed == [Here EXCEPT !.mails = Append(mails, [email |-> req.email,
                                                        name |-> req.name])]
    IN
    {Answered(Here, op, 500, "sendMail failed",
              <<Effect("send-mail", 0, req.email, FALSE)>>),
     Answered(mailed, op, 500,
              IF BookingIsValid(doc) THEN "Booking.create failed"
              ELSE "Booking validation failed",
              <<sent, Effect("create-booking", 0, "", FALSE)>>)}
    \cup
    (IF nextBookingId > MaxBookings \/ ~BookingIsValid(doc) THEN {}
     ELSE {Answered([mailed EXCEPT
                        !.bookings = bookings @@ (nextBookingId :> doc),
                        !.nextBookingId = nextBookingId + 1],
                    op, 201, "Booking created and confirmation email sent.",
                    <<sent, Effect("create-booking", nextBookingId, "", TRUE)>>)})

\* lines 107-153: Booking.create, then sendMail, then the response
CreateBookingAndSendMail(req) ==
    LET op == "create-booking"
        doc == BookingDoc(req)
        created == Effect("create-booking", nextBookingId, "", TRUE)
        stored == [Here EXCEPT !.bookings = bookings @@ (nextBookingId :> doc),
                               !.nextBookingId = nextBookingId + 1]
    IN
    {Answered(Here, op, 500,
              IF BookingIsValid(doc) THEN "Booking.create failed"
              ELSE "Booking validation failed",
              <<Effect("create-booking", 0, "", FALSE)>>)}
    \cup
    (IF nextBookingId > MaxBookings \/ ~BookingIsValid(doc) THEN {}
     ELSE {Answered(stored, op, 500, "sendMail failed",
                    <<created, Effect("send-mail", 0, req.email, FALSE)>>),
           Answered([stored EXCEPT !.mails = Append(mails, [email |-> req.email,
                                                            name |-> req.name])],
                    op, 201, "Booking created and confirmation email sent.",
                    <<created, Effect("send-mail", 0, req.email, TRUE)>>)})

CreateBookingOutcomes(req) ==
    LET op == "create-booking" IN
    IF \/ req.name = "" \/ req.email = "" \/ req.phone = ""
       \/ req.date = "" \/ req.time = ""
    THEN {Rejected(op, 400, "All required fields must be filled.")}
    ELSE IF IsInvalidDateTime(req)
    THEN {Rejected(op, 400, "Invalid date or time format.")}
    ELSE CreateBookingAndSendMail(req)

CreateBooking(req) == \E o \in CreateBookingOutcomes(req) : Apply(o)

(***************************************************************************)
(* POST /vote-helpful, step by step.  The handler awaits twice: the        *)
(* findById (lines 51-54) and the save (line 62); requests of other        *)
(* clients run between the two.  The document is a copy in the handler's   *)
(* memory: the increment is made on the copy, and save() writes the value  *)
(* of the modified field.                                                  *)
(***************************************************************************)
Loaded(req, doc) == [pc |-> "loaded", req |-> req, doc |-> doc]
Done(req, doc, status) == [pc |-> "done", req |-> req, doc |-> doc, status |-> status]
NoDoc == [rating |-> 0, helpfulUp |-> 0, helpfulDown |-> 0]

\* the request arrives, is validated, and the review is read
VoteFind(slot, req) ==
    /\ inflight[slot] = Idle
    /\ IF VoteIsInvalid(req)
       THEN /\ inflight' = [inflight EXCEPT ![slot] = Done(req, NoDoc, 400)]
            /\ last' = Reply("vote-helpful", 400, "Invalid vote data")
            /\ trace' = <<>>
       ELSE IF req.reviewId \notin DOMAIN publicReviews
       THEN /\ inflight' = [inflight EXCEPT ![slot] = Done(req, NoDoc, 404)]
            /\ last' = Reply("vote-helpful", 404, "Review not found")
            /\ trace' = <<>>
       ELSE /\ inflight' = [inflight EXCEPT
                               ![slot] = Loaded(req, publicReviews[req.reviewId])]
            /\ UNCHANGED <<last, trace>>
    /\ UNCHANGED <<dbVars, mails, assets, nextPublicId, clock>>

\* the collection after save() of the document doc, of which vote changed one field
SavedVote(id, doc, vote) ==
    IF vote = "up" THEN [publicReviews EXCEPT ![id].helpfulUp = doc.helpfulUp]
    ELSE [publicReviews EXCEPT ![id].helpfulDown = doc.helpfulDown]

\* the increment on the copy and the save, which throws or succeeds
VoteSave(slot) ==
    /\ inflight[slot].pc = "loaded"
    /\ LET req == inflight[slot].req
           review == Voted(inflight[slot].doc, req.vote)
       IN
       /\ review.helpfulUp <= MaxVotes /\ review.helpfulDown <= MaxVotes
       /\ \/ /\ publicReviews' = SavedVote(req.reviewId, review, req.vote)
             /\ inflight' = [inflight EXCEPT ![slot] = Done(req, review, 200)]
             /\ last' = Reply("vote-helpful", 200, "Vote recorded")
             /\ trace' = <<Effect("save-review", req.reviewId, req.vote, TRUE)>>
          \/ /\ UNCHANGED publicReviews
             /\ inflight' = [inflight EXCEPT ![slot] = Done(req, review, 500)]
             /\ last' = Reply("vote-helpful", 500, "review.save failed")
             /\ trace' = <<Effect("save-review", req.reviewId, req.vote, FALSE)>>
    /\ UNCHANGED <<products, nextProductId, events, nextEventId, orders, nextReviewId,
                   blogs, nextBlogId, bookings, nextBookingId, mails, assets,
                   nextPublicId, clock>>

(***************************************************************************)
(* PUT /create-new-review, step by step.  The handler awaits the reads     *)
(* (Product.findById, Order.findById), then product.save, then the order   *)
(* update; requests of other clients run between them.  The two reads are  *)
(* one step: no request changes whether an order exists or which products  *)
(* its cart holds.  product is a copy in the handler's memory.  save()     *)
(* sends the changes made to the copy, as the ODM does: a pushed review is *)
(* appended to the stored array ($push), an edited review is set at its    *)
(* index on condition that the array's version is the one read, and        *)
(* ratings is set to the value computed from the copy.                     *)
(***************************************************************************)
StepReviewRequests ==
    {req \in ReviewRequests :
        req.comment = "good" /\ req.rating \in {Num(2), Num(5), Str}}

Saved(req, doc) == [pc |-> "saved", req |-> req, doc |-> doc]

\* the status and message of the checks' first failure, status 0 when all pass
ReviewChecks(req) ==
    IF ~ObjectIdIsValid(req.productId) \/ ~ObjectIdIsValid(req.orderId)
    THEN Reply("create-new-review", 400, "Invalid product or order ID")
    ELSE IF ~RatingIsValid(req.rating)
    THEN Reply("create-new-review", 400, "Rating must be a number between 1 and 5")
    ELSE IF req.productId \notin DOMAIN products
    THEN Reply("create-new-review", 404, "Product not found")
    ELSE IF req.orderId \notin DOMAIN orders
    THEN Reply("create-new-review", 404, "Order not found")
    ELSE IF ~isProductInOrder(orders[req.orderId], req.productId)
    THEN Reply("create-new-review", 400, "Product not found in order")
    ELSE Reply("create-new-review", 0, "")

\* the request arrives, is checked, and the product is read
ReviewLoad(slot, req) ==
    /\ inflight[slot] = Idle
    /\ IF ReviewChecks(req).status # 0
       THEN /\ inflight' = [inflight EXCEPT
                               ![slot] = Done(req, NewProduct(<<>>, <<>>),
                                              ReviewChecks(req).status)]
            /\ last' = ReviewChecks(req)
            /\ trace' = <<>>
       ELSE /\ inflight' = [inflight EXCEPT ![slot] = Loaded(req, products[req.productId])]
            /\ UNCHANGED <<last, trace>>
    /\ UNCHANGED <<dbVars, mails, assets, nextPublicId, clock>>

\* the version of the stored reviews array: the number of pushes made to it
Version(product) == Len(product.reviews)

\* the stored product after save() of the copy doc, edited for the request req
SavedProduct(stored, doc, req) ==
    LET i == existingReview(doc.reviews, req.user)
        edited == UpsertReview(doc.reviews, req.user, req.rating.n, req.comment,
                               req.productId, clock)
    IN
    [stored EXCEPT
        !.reviews = IF i = 0 THEN Append(stored.reviews, edited[Len(edited)])
                    ELSE [stored.reviews EXCEPT ![i] = edited[i]],
        !.ratings = AverageRating(edited)]

\* save() is refused: the copy edits a review in place and the array was
\* pushed to since it was read
VersionConflict(stored, doc, req) ==
    existingReview(doc.reviews, req.user) # 0 /\ Version(stored) # Version(doc)

\* the edit of the copy and product.save, which throws or succeeds
ReviewSave(slot) ==
    /\ inflight[slot].pc = "loaded"
    /\ LET req == inflight[slot].req
           doc == inflight[slot].doc
           stored == products[req.productId]
       IN
       \/ /\ ~VersionConflict(stored, doc, req)
          /\ products' = [products EXCEPT
                             ![req.productId] = SavedProduct(stored, doc, req)]
          /\ inflight' = [inflight EXCEPT ![slot] = Saved(req, doc)]
          /\ trace' = <<Effect("save-product", req.productId, "", TRUE)>>
          /\ UNCHANGED last
       \/ /\ UNCHANGED products
          /\ inflight' = [inflight EXCEPT ![slot] = Done(req, doc, 400)]
          /\ last' = Reply("create-new-review", 400, "product.save failed")
          /\ trace' = <<Effect("save-product", req.productId, "", FALSE)>>
    /\ UNCHANGED <<nextProductId, events, nextEventId, orders, publicReviews,
                   nextReviewId, blogs, nextBlogId, bookings, nextBookingId, mails, assets,
                   nextPublicId, clock>>

\* Order.findByIdAndUpdate, which throws or succeeds, and the response
ReviewMark(slot) ==
    /\ inflight[slot].pc = "saved"
    /\ LET req == inflight[slot].req IN
       \/ /\ orders' = [orders EXCEPT
                           ![req.orderId] = MarkReviewed(orders[req.orderId], req.productId)]
          /\ inflight' = [inflight EXCEPT ![slot] = Done(req, inflight[slot].doc, 200)]
          /\ last' = Reply("create-new-review", 200, "Reviewed successfully!")
          /\ trace' = <<Effect("save-product", req.productId, "", TRUE),
                        Effect("update-order", req.orderId, "", TRUE)>>
       \/ /\ UNCHANGED orders
          /\ inflight' = [inflight EXCEPT ![slot] = Done(req, inflight[slot].doc, 400)]
          /\ last' = Reply("create-new-review", 400, "Order.findByIdAndUpdate failed")
          /\ trace' = <<Effect("save-product", req.productId, "", TRUE),
                        Effect("update-order", req.orderId, "", FALSE)>>
    /\ UNCHANGED <<products, nextProductId, events, nextEventId, publicReviews,
                   nextReviewId, blogs, nextBlogId, bookings, nextBookingId, mails, assets,
                   nextPublicId, clock>>

(***************************************************************************)
(* Initial state: an empty catalogue, two orders placed earlier.  Order 1  *)
(* has two lines of product 1 and one of product 2; order 2 has a line     *)
(* without a productId and a line of product 2.                            *)
(***************************************************************************)
Line(productId) == [productId |-> productId, isReviewed |-> FALSE]

Init ==
    /\ products = <<>>
    /\ nextProductId = 1
    /\ events = <<>>
    /\ nextEventId = 1
    /\ orders = <<[cart |-> <<Line(1), Line(2), Line(1)>>],
                  [cart |-> <<Line(0), Line(2)>>]>>
    /\ publicReviews = <<>>
    /\ nextReviewId = 1
    /\ blogs = <<>>
    /\ nextBlogId = 1
    /\ bookings = <<>>
    /\ nextBookingId = 1
    /\ mails = <<>>
    /\ assets = {}
    /\ nextPublicId = 1
    /\ clock = 0
    /\ last = Reply("", 0, "")
    /\ trace = <<>>
    /\ inflight = [slot \in Slots |-> Idle]

\* creation requests that carry no media
PlainCreateRequests ==
    {r \in DescriptorCreateRequests : r.images = Absent /\ r.videos = Absent}

DoTick == Tick

DoReview == \E req \in ReviewRequests : CreateNewReview(req)

DoCreatePlain == \E req \in PlainCreateRequests : CreateProductDescriptors(req)

DoCreateUpload == \E req \in UploadCreateRequests : CreateProductUpload(req)

DoCreateDescriptors == \E req \in DescriptorCreateRequests : CreateProductDescriptors(req)

DoDeleteProduct == \E id \in 1..(MaxProducts + 1) : DeleteShopProduct(id)

DoDeleteProductMedia == \E id \in 1..(MaxProducts + 1) : DeleteShopProductMedia(id)

DoCreateEvent == \E req \in EventCreateRequests : CreateEvent(req)

DoDeleteEvent == \E id \in 1..(MaxEvents + 1) : DeleteShopEvent(id)

DoPublicReview == \E req \in PublicReviewRequests : SubmitPublicReview(req)

DoVote == \E req \in VoteRequests : VoteHelpful(req)

DoCreateShopEvent == \E req \in ShopEventRequests : CreateShopEvent(req)

DoDeleteOwnedEvent == \E req \in OwnedEventDeleteRequests : DeleteOwnedEvent(req)

DoAdminDeleteProduct == \E id \in 1..(MaxProducts + 1) : AdminDeleteProduct(id)

DoCreateBlog == \E req \in BlogRequests : CreateBlog(req)

DoDeleteBlog == \E id \in 1..(MaxBlogs + 1) : DeleteBlog(id)

DoCreateBooking == \E req \in BookingRequests : CreateBooking(req)

DoVoteFind == \E slot \in Slots, req \in VoteRequests : VoteFind(slot, req)

DoVoteSave == \E slot \in Slots : VoteSave(slot)

DoReviewLoad == \E slot \in Slots, req \in StepReviewRequests : ReviewLoad(slot, req)

DoReviewSave == \E slot \in Slots : ReviewSave(slot)

DoReviewMark == \E slot \in Slots : ReviewMark(slot)

\* a review handled while no other request is in flight
DoReviewAlone ==
    /\ \A slot \in Slots : inflight[slot] = Idle
    /\ \E req \in StepReviewRequests : CreateNewReview(req)

\* reviews: products without media are created and reviewed
NextReview == DoTick \/ DoCreatePlain \/ DoReview
SpecReview == Init /\ [][NextReview]_vars

\* media: products and events are created and deleted
NextMedia ==
    \/ DoCreateUpload \/ DoCreateDescriptors \/ DoDeleteProduct \/ DoDeleteProductMedia
    \/ DoCreateEvent \/ DoDeleteEvent
SpecMedia == Init /\ [][NextMedia]_vars

\* public reviews and their votes
NextVote == DoPublicReview \/ DoVote
SpecVote == Init /\ [][NextVote]_vars

\* content: products, shop events and blogs are created with uploads and deleted
NextContent ==
    \/ DoCreateUpload \/ DoAdminDeleteProduct
    \/ DoCreateShopEvent \/ DoDeleteOwnedEvent
    \/ DoCreateBlog \/ DoDeleteBlog
SpecContent == Init /\ [][NextContent]_vars

\* bookings are created and their confirmations sent
NextBooking == DoTick \/ DoCreateBooking
SpecBooking == Init /\ [][NextBooking]_vars

\* votes of several clients, interleaved at their awaits
NextVoteSteps == DoPublicReview \/ DoVoteFind \/ DoVoteSave
SpecVoteSteps == Init /\ [][NextVoteSteps]_vars

\* reviews of several clients, interleaved at their awaits
NextReviewSteps ==
    DoCreatePlain \/ DoReviewAlone \/ DoReviewLoad \/ DoReviewSave \/ DoReviewMark
SpecReviewSteps == Init /\ [][NextReviewSteps]_vars

Next ==
    \/ NextReview \/ NextMedia \/ NextVote \/ NextContent
    \/ NextVoteSteps \/ NextReviewSteps \/ NextBooking
Spec == Init /\ [][Next]_vars

(***************************************************************************)
(* Properties.  A property of a handler is stated of its outcomes: in      *)
(* every reachable state, whatever request arrives next, every state the   *)
(* handler can leave behind satisfies it.                                  *)
(***************************************************************************)
\* the rating is not a number, or is below 1 or above 5
RatingOutOfRange(rating) == rating.t # "number" \/ rating.n < 1 \/ rating.n > 5

\* the positions of the reviews of user in a review list
ReviewsOf(reviews, user) == {i \in 1..Len(reviews) : reviews[i].user = user}

RECURSIVE SumOfRatings(_)
SumOfRatings(reviews) ==
    IF reviews = <<>> THEN 0 ELSE Head(reviews).rating + SumOfRatings(Tail(reviews))

\* ratings is the mean of the stored ratings: ratings * count = sum, count >= 1
IsMean(ratings, reviews) ==
    /\ Len(reviews) >= 1
    /\ ratings.den # 0
    /\ ratings.num * Len(reviews) = SumOfRatings(reviews) * ratings.den

IsReview(o) == o.last.op = "create-new-review"

\* C1: a create-new-review request whose rating is not a number, or is below 1
\* or above 5, is answered 400 and leaves the products (their review lists and
\* ratings) as they were.
C1_InvalidRatingRejected ==
    \A req \in ReviewRequests :
        RatingOutOfRange(req.rating) =>
            \A o \in CreateNewReviewOutcomes(req) :
                /\ o.last.status = 400
                /\ o.products = products

\* a request was rejected for its rating while a product had reviews
C1_Witness ==
    /\ last.op = "create-new-review"
    /\ last.status = 400
    /\ last.msg = "Rating must be a number between 1 and 5"
    /\ \E p \in DOMAIN products : products[p].reviews # <<>>

\* C2: when a reviewer who already has a stored review of the product submits
\* another one successfully, the product afterwards stores exactly one review
\* of that reviewer, with the rating, comment and timestamp of the second
\* submission.
C2_SecondReviewOverwrites ==
    \A req \in ReviewRequests :
        \A o \in CreateNewReviewOutcomes(req) :
            (/\ o.last.status = 200
             /\ ReviewsOf(products[req.productId].reviews, req.user) # {})
            => LET after == o.products[req.productId].reviews IN
               /\ Cardinality(ReviewsOf(after, req.user)) = 1
               /\ \A i \in ReviewsOf(after, req.user) :
                    /\ after[i].rating = req.rating.n
                    /\ after[i].comment = req.comment
                    /\ after[i].createdAt = clock
               /\ Len(after) = Len(products[req.productId].reviews)

\* the first of two stored reviews is younger than the second: its reviewer
\* submitted again after the other reviewer's review was pushed
C2_Witness ==
    /\ last.op = "create-new-review"
    /\ last.status = 200
    /\ \E p \in DOMAIN products :
        /\ Len(products[p].reviews) = 2
        /\ products[p].reviews[1].createdAt > products[p].reviews[2].createdAt

\* C3: every product that has stored reviews has ratings equal to the sum of
\* their ratings divided by their number, which is at least 1; every outcome of
\* create-new-review that writes the product leaves it so.
C3_RatingsIsMean ==
    /\ \A p \in DOMAIN products :
        products[p].reviews # <<>> => IsMean(products[p].ratings, products[p].reviews)
    /\ \A req \in ReviewRequests :
        \A o \in CreateNewReviewOutcomes(req) :
            o.last.status = 200 =>
                IsMean(o.products[req.productId].ratings, o.products[req.productId].reviews)

\* two reviewers' ratings with a mean that is no integer
C3_Witness ==
    /\ last.op = "create-new-review"
    /\ last.status = 200
    /\ \E p \in DOMAIN products :
        /\ Len(products[p].reviews) = 2
        /\ products[p].reviews[1].user # products[p].reviews[2].user
        /\ products[p].ratings.den = 2

\* no line of the order's cart has the productId
NoLineOf(order, productId) ==
    \A i \in 1..Len(order.cart) : order.cart[i].productId # productId

\* C4: a create-new-review request naming an existing order whose cart has no
\* line with the productId fails, with "Product not found in order" when it
\* passed the earlier checks, and changes neither a product nor an order line.
C4_ProductNotInOrderRejected ==
    \A req \in ReviewRequests :
        (/\ req.orderId \in DOMAIN orders
         /\ NoLineOf(orders[req.orderId], req.productId))
        => \A o \in CreateNewReviewOutcomes(req) :
            /\ o.last.status \in {400, 404}
            /\ o.products = products
            /\ o.orders = orders
            /\ (/\ req.productId \in DOMAIN products
                /\ ~RatingOutOfRange(req.rating))
               => (o.last.status = 400 /\ o.last.msg = "Product not found in order")

\* a review of an existing product was rejected for an order without it
C4_Witness ==
    /\ last.op = "create-new-review"
    /\ last.msg = "Product not found in order"
    /\ products # <<>>

\* the destroy calls of an outcome are one per descriptor, in order, followed by
\* the removal of the record
AttemptsAll(o, descs, removal) ==
    /\ Len(o.trace) = Len(descs) + 1
    /\ \A i \in 1..Len(descs) :
        o.trace[i].k = "destroy" /\ o.trace[i].id = descs[i].public_id
    /\ o.trace[Len(descs) + 1].k = removal

\* the positions of the destroy calls of an outcome that threw
FailedCalls(o) == {i \in 1..(Len(o.trace) - 1) : ~o.trace[i].ok}

Removed(o) == o.trace[Len(o.trace)].ok

\* C5: deleting an existing product (either handler) or event with N
\* descriptors makes one destroy call per descriptor whichever of them throw,
\* and, the database accepting the removal, removes the record and answers
\* 200; for every subset of the descriptors there is such an outcome in which
\* exactly those calls threw.
C5_DeleteCompletes ==
    /\ \A id \in DOMAIN products :
        /\ \A o \in DeleteShopProductOutcomes(id) :
            /\ AttemptsAll(o, products[id].images, "remove-product")
            /\ Removed(o) => (o.last.status = 200 /\ id \notin DOMAIN o.products)
        /\ \A F \in SUBSET (1..Len(products[id].images)) :
            \E o \in DeleteShopProductOutcomes(id) :
                FailedCalls(o) = F /\ o.last.status = 200 /\ id \notin DOMAIN o.products
        /\ \A o \in DeleteShopProductMediaOutcomes(id) :
            /\ AttemptsAll(o, products[id].images \o products[id].videos, "remove-product")
            /\ Removed(o) => (o.last.status = 200 /\ id \notin DOMAIN o.products)
        /\ \A F \in SUBSET (1..(Len(products[id].images) + Len(products[id].videos))) :
            \E o \in DeleteShopProductMediaOutcomes(id) :
                FailedCalls(o) = F /\ o.last.status = 200 /\ id \notin DOMAIN o.products
    /\ \A id \in DOMAIN events :
        /\ \A o \in DeleteShopEventOutcomes(id) :
            /\ AttemptsAll(o, events[id].images, "remove-event")
            /\ Removed(o) => (o.last.status = 200 /\ id \notin DOMAIN o.events)
        /\ \A F \in SUBSET (1..Len(events[id].images)) :
            \E o \in DeleteShopEventOutcomes(id) :
                FailedCalls(o) = F /\ o.last.status = 200 /\ id \notin DOMAIN o.events

\* a product with three descriptors was deleted with success although the
\* second destroy call threw
C5_Witness ==
    /\ last.op = "delete-shop-product-media"
    /\ last.status = 200
    /\ Len(trace) = 4
    /\ trace[1].ok /\ ~trace[2].ok /\ trace[3].ok
    /\ trace[3].k = "destroy"
    /\ products = <<>>

UpVote(r) == [reviewId |-> r, vote |-> "up"]

\* C6: a successful vote "up" leaves helpfulUp one higher and helpfulDown as it
\* was, so two of them in a row take helpfulUp from 0 to 1 and from 1 to 2; a
\* vote whose direction is neither "up" nor "down" is answered 400 "Invalid
\* vote data" and changes no counter.
C6_VoteCounts ==
    /\ \A r \in DOMAIN publicReviews :
        \A o \in VoteHelpfulOutcomes(UpVote(r)) :
            o.last.status = 200 =>
                /\ o.publicReviews[r].helpfulUp = publicReviews[r].helpfulUp + 1
                /\ o.publicReviews[r].helpfulDown = publicReviews[r].helpfulDown
                /\ publicReviews[r].helpfulUp = 0 => o.publicReviews[r].helpfulUp = 1
                /\ publicReviews[r].helpfulUp = 1 => o.publicReviews[r].helpfulUp = 2
    /\ \A req \in VoteRequests :
        req.vote \notin {"up", "down"} =>
            \A o \in VoteHelpfulOutcomes(req) :
                /\ o.last.status = 400
                /\ o.last.msg = "Invalid vote data"
                /\ o.publicReviews = publicReviews

\* a review voted up twice, and nothing else, whose latest vote was rejected
C6_Witness ==
    /\ last.op = "vote-helpful"
    /\ last.msg = "Invalid vote data"
    /\ \E r \in DOMAIN publicReviews :
        publicReviews[r].helpfulUp = 2 /\ publicReviews[r].helpfulDown = 0

ValidHeader(req) == req.shopId \in Shops /\ ~IsBlank(req.location)

\* the uploading handler processes exactly one media item, the raw string
OneItemUploaded(req) ==
    /\ imagesArray(req.images) = <<StrItem(req.images.s)>>
    /\ \A o \in CreateProductUploadOutcomes(req) :
        /\ {i \in 1..Len(o.trace) : o.trace[i].k = "upload"} = {1}
        /\ o.trace[1].arg = req.images.s
        /\ o.last.status = 201 => Len(o.products[nextProductId].images) = 1

\* the descriptor handler keeps exactly one media item
OneItemKept(req) ==
    \A o \in CreateProductDescriptorsOutcomes(req) :
        o.last.status = 201 => Len(o.products[nextProductId].images) = 1

\* C7, as stated: on product creation, by either handler, an images field that
\* is a bare non-JSON string is normalized to a one-element list, so exactly
\* one media item is processed for the product.
C7_BareStringIsOneItem ==
    /\ \A req \in UploadCreateRequests :
        (ValidHeader(req) /\ req.images.t = "string" /\ req.images.s \in BareStrings)
            => OneItemUploaded(req)
    /\ \A req \in DescriptorCreateRequests :
        (ValidHeader(req) /\ req.images.t = "string" /\ req.images.s \in BareStrings)
            => OneItemKept(req)

\* C7, amended: on product creation by the uploading handler, an images field
\* that is a bare non-JSON string is normalized to a one-element list holding
\* the raw string: exactly one upload is made, of that string, and a created
\* product has exactly one image.
C7_UploadBareStringIsOneItem ==
    \A req \in UploadCreateRequests :
        (ValidHeader(req) /\ req.images.t = "string" /\ req.images.s \in BareStrings)
            => OneItemUploaded(req)

\* a product was created from one upload of the bare string
C7_Witness ==
    /\ last.op = "create-product"
    /\ last.status = 201
    /\ Len(trace) = 2
    /\ trace[1].k = "upload" /\ trace[1].arg = "http://x/1.png" /\ trace[1].ok
    /\ \E p \in DOMAIN products : Len(products[p].images) = 1

\* the field is a string that is no JSON text
Unparseable(media) == media.t = "string" /\ media.s \in BareStrings

\* C8: in the descriptor handler, an images or videos field that is a string
\* failing to parse as JSON is normalized to the empty list and does not abort
\* the request: no outcome is an error about that field, a created product has
\* no media from it, and with nothing else wrong the product is created.
C8_UnparseableFailsSoft ==
    \A req \in DescriptorCreateRequests :
        /\ Unparseable(req.images) =>
            /\ parseMediaArray(req.images) = ArrVal(<<>>)
            /\ \A o \in CreateProductDescriptorsOutcomes(req) :
                /\ o.last.msg \notin {"Invalid image data format", "imagesLinks is not iterable"}
                /\ o.last.status = 201 => o.products[nextProductId].images = <<>>
        /\ Unparseable(req.videos) =>
            /\ parseMediaArray(req.videos) = ArrVal(<<>>)
            /\ \A o \in CreateProductDescriptorsOutcomes(req) :
                /\ o.last.msg \notin {"Invalid video data format", "videoLinks is not iterable"}
                /\ o.last.status = 201 => o.products[nextProductId].videos = <<>>
        /\ (/\ ValidHeader(req)
            /\ Unparseable(req.images) /\ Unparseable(req.videos)
            /\ nextProductId <= MaxProducts)
           => \E o \in CreateProductDescriptorsOutcomes(req) :
                /\ o.last.status = 201
                /\ o.products[nextProductId].images = <<>>
                /\ o.products[nextProductId].videos = <<>>

\* a product was created by the descriptor handler without media
C8_Witness ==
    /\ last.op = "create-product-descriptors"
    /\ last.status = 201
    /\ \E p \in DOMAIN products :
        products[p].images = <<>> /\ products[p].videos = <<>>

\* after a successful review, every line of the order with the product is marked
C9_Marked ==
    (last.op = "create-new-review" /\ last.status = 200) =>
        \A i \in 1..Len(orders[trace[2].id].cart) :
            orders[trace[2].id].cart[i].productId = trace[1].id
                => orders[trace[2].id].cart[i].isReviewed

\* no step resets a line's flag
C9_Monotone ==
    \A o \in DOMAIN orders :
        /\ o \in DOMAIN orders'
        /\ Len(orders'[o].cart) = Len(orders[o].cart)
        /\ \A i \in 1..Len(orders[o].cart) :
            orders[o].cart[i].isReviewed => orders'[o].cart[i].isReviewed

\* C9: after a successful create-new-review for product X with order O every
\* cart line of O whose productId is X has isReviewed true, and no step takes a
\* line's isReviewed from true back to false.
C9_ReviewedStaysReviewed == [][C9_Marked' /\ C9_Monotone]_vars

\* both lines of product 1 in order 1 are marked, the line of product 2 is not
C9_Witness ==
    /\ last.op = "create-new-review"
    /\ last.status = 200
    /\ orders[1].cart[1].isReviewed
    /\ ~orders[1].cart[2].isReviewed
    /\ orders[1].cart[3].isReviewed

\* the product write succeeded and the order write failed
OrderWriteFailed(o) ==
    /\ Len(o.trace) = 2
    /\ o.trace[1].k = "save-product" /\ o.trace[1].ok
    /\ o.trace[2].k = "update-order" /\ ~o.trace[2].ok

\* C10: when product.save succeeds and the write of the order's flag fails,
\* the request is answered with an error, and the product keeps the review
\* and the recomputed ratings; the order is unchanged.
C10_ReviewSurvivesFlagFailure ==
    \A req \in ReviewRequests :
        \A o \in CreateNewReviewOutcomes(req) :
            OrderWriteFailed(o) =>
                LET after == o.products[req.productId] IN
                /\ o.last.status >= 400
                /\ \E i \in 1..Len(after.reviews) :
                    /\ after.reviews[i].user = req.user
                    /\ after.reviews[i].rating = req.rating.n
                    /\ after.reviews[i].comment = req.comment
                    /\ after.reviews[i].createdAt = clock
                /\ IsMean(after.ratings, after.reviews)
                /\ o.orders = orders

\* a request answered with an error left a review behind and no line marked
C10_Witness ==
    /\ last.op = "create-new-review"
    /\ last.status = 400
    /\ Len(trace) = 2
    /\ trace[1].ok /\ ~trace[2].ok
    /\ products[trace[1].id].reviews # <<>>
    /\ \A i \in 1..Len(orders[trace[2].id].cart) : ~orders[trace[2].id].cart[i].isReviewed

\* the positions of an outcome's calls that wrote an entity record
RecordWrites(o) ==
    {i \in 1..Len(o.trace) :
        o.trace[i].k \in {"create-product", "create-event", "create-blog"} /\ o.trace[i].ok}

\* the records are as they were
NoRecordWritten(o) ==
    o.products = products /\ o.events = events /\ o.blogs = blogs

\* in the outcome o of a creation request with the media items, the record is
\* written after all the uploads, all successful, and not at all when one failed
UploadsThenRecord(o, items) ==
    /\ \A i \in RecordWrites(o) :
        /\ i = Len(items) + 1 /\ i = Len(o.trace)
        /\ \A j \in 1..(i - 1) : o.trace[j].k = "upload" /\ o.trace[j].ok
    /\ RecordWrites(o) = {} => NoRecordWritten(o)
    /\ (\E j \in 1..Len(o.trace) : o.trace[j].k = "upload" /\ ~o.trace[j].ok)
        => RecordWrites(o) = {} /\ NoRecordWritten(o)

\* C11: in create-product, create-event (both handlers) and create-blog, the
\* entity record is written only after every upload of the request completed
\* successfully, and when an upload fails no record is written, so that no
\* stored entity refers to media of a failed request.
C11_RecordAfterUploads ==
    /\ \A req \in UploadCreateRequests :
        \A o \in CreateProductUploadOutcomes(req) :
            UploadsThenRecord(o, imagesArray(req.images))
    /\ \A req \in EventCreateRequests :
        \A o \in CreateEventOutcomes(req) :
            UploadsThenRecord(o, imagesArray(req.images))
    /\ \A req \in ShopEventRequests :
        \A o \in CreateShopEventOutcomes(req) : UploadsThenRecord(o, req.files)
    /\ \A req \in BlogRequests :
        \A o \in CreateBlogOutcomes(req) : UploadsThenRecord(o, blogImages(req.images))

\* of two concurrent uploads one completed and one failed: the request was
\* answered with an error, the media store holds the completed one, and there
\* is no event
C11_Witness ==
    /\ last.op = "create-shop-event"
    /\ last.status = 500
    /\ Len(trace) = 2
    /\ trace[1].k = "upload" /\ trace[1].ok
    /\ trace[2].k = "upload" /\ ~trace[2].ok
    /\ trace[1].id \in assets
    /\ events = <<>>

\* the outcome made no call and left the database and the media store alone
SideEffectFree(o) ==
    /\ o.trace = <<>>
    /\ [o EXCEPT !.last = last, !.trace = trace] = Here

\* every outcome answered 400 or 404 is free of side effects
ErrorsAreClean(outcomes) ==
    \A o \in outcomes : o.last.status \in {400, 404} => SideEffectFree(o)

\* C12: whenever a create, delete, review or vote request is answered 400 or
\* 404, the request made no media upload, no media delete and no database
\* write before the error.
C12_ErrorsHaveNoSideEffects ==
    /\ \A req \in UploadCreateRequests : ErrorsAreClean(CreateProductUploadOutcomes(req))
    /\ \A req \in DescriptorCreateRequests :
        ErrorsAreClean(CreateProductDescriptorsOutcomes(req))
    /\ \A req \in EventCreateRequests : ErrorsAreClean(CreateEventOutcomes(req))
    /\ \A req \in ShopEventRequests : ErrorsAreClean(CreateShopEventOutcomes(req))
    /\ \A req \in BlogRequests : ErrorsAreClean(CreateBlogOutcomes(req))
    /\ \A id \in 1..(MaxProducts + 1) :
        /\ ErrorsAreClean(DeleteShopProductOutcomes(id))
        /\ ErrorsAreClean(DeleteShopProductMediaOutcomes(id))
        /\ ErrorsAreClean(AdminDeleteProductOutcomes(id))
    /\ \A id \in 1..(MaxEvents + 1) : ErrorsAreClean(DeleteShopEventOutcomes(id))
    /\ \A req \in OwnedEventDeleteRequests : ErrorsAreClean(DeleteOwnedEventOutcomes(req))
    /\ \A id \in 1..(MaxBlogs + 1) : ErrorsAreClean(DeleteBlogOutcomes(id))
    /\ \A req \in ReviewRequests : ErrorsAreClean(CreateNewReviewOutcomes(req))
    /\ \A req \in PublicReviewRequests : ErrorsAreClean(SubmitPublicReviewOutcomes(req))
    /\ \A req \in VoteRequests : ErrorsAreClean(VoteHelpfulOutcomes(req))

\* a blog without a title was refused with 400 after its image was uploaded:
\* the media store holds the image and there is no blog
C12_Witness ==
    /\ last.op = "create-blog"
    /\ last.status = 400
    /\ last.msg = "Blog validation failed"
    /\ Len(trace) = 2
    /\ trace[1].k = "upload" /\ trace[1].ok /\ trace[1].id \in assets
    /\ blogs = <<>>

\* the element has no non-empty public_id or no non-empty url
Lacks(item) == item.t = "null" \/ item.public_id = 0 \/ item.url = 0

\* some element of the normalized field lacks public_id or url
HasBadElement(media) ==
    \E i \in 1..Len(Items(parseMediaArray(media))) : Lacks(Items(parseMediaArray(media))[i])

\* every stored descriptor of every product has both fields
StoredDescriptorsComplete(ps) ==
    \A p \in DOMAIN ps :
        /\ \A i \in 1..Len(ps[p].images) :
            ps[p].images[i].public_id # 0 /\ ps[p].images[i].url # 0
        /\ \A i \in 1..Len(ps[p].videos) :
            ps[p].videos[i].public_id # 0 /\ ps[p].videos[i].url # 0

\* C13: on product creation with pre-uploaded descriptors, if an element of
\* the normalized images or videos list lacks a non-empty public_id or url, the
\* request (its shop and location being valid) is answered 400 and creates no
\* product; hence every stored product has only descriptors with both fields.
C13_BadDescriptorRejected ==
    /\ \A req \in DescriptorCreateRequests :
        (ValidHeader(req) /\ (HasBadElement(req.images) \/ HasBadElement(req.videos))) =>
            \A o \in CreateProductDescriptorsOutcomes(req) :
                o.last.status = 400 /\ o.products = products
    /\ StoredDescriptorsComplete(products)

\* no product is created from a list with an element that lacks a field, and
\* every product stored by the operation has complete descriptors
C13_NoIncompleteDescriptorStored ==
    /\ \A req \in DescriptorCreateRequests :
        (HasBadElement(req.images) \/ HasBadElement(req.videos)) =>
            \A o \in CreateProductDescriptorsOutcomes(req) :
                o.last.status \in {400, 500} /\ o.products = products
    /\ StoredDescriptorsComplete(products)

\* the request with a null element ended in a TypeError answered 500
C13_Witness ==
    /\ last.op = "create-product-descriptors"
    /\ last.status = 500
    /\ last.msg = "Cannot read properties of null"

\* the vote requests on review r in the direction dir that were answered 200
SucceededVotes(r, dir) ==
    {slot \in Slots :
        /\ inflight[slot].pc = "done"
        /\ inflight[slot].status = 200
        /\ inflight[slot].req.reviewId = r
        /\ inflight[slot].req.vote = dir}

\* no request is between its read and its write
Quiescent == \A slot \in Slots : inflight[slot].pc # "loaded"

\* C14: a review is created with both counters 0; when the vote requests on it
\* have all been answered, each counter equals the number of requests in its
\* direction that succeeded, however their reads and writes interleaved.
C14_VotesAllCounted ==
    Quiescent =>
        \A r \in DOMAIN publicReviews :
            /\ publicReviews[r].helpfulUp = Cardinality(SucceededVotes(r, "up"))
            /\ publicReviews[r].helpfulDown = Cardinality(SucceededVotes(r, "down"))

\* two up votes on one review were both answered 200 and helpfulUp is 1
C14_Witness ==
    /\ Quiescent
    /\ \E r \in DOMAIN publicReviews :
        /\ Cardinality(SucceededVotes(r, "up")) = 2
        /\ publicReviews[r].helpfulUp = 1

\* C15: in every stored state of every product no two reviews have the same
\* reviewer, also when two requests of one reviewer for one product interleave
\* their load and save steps.
C15_OneReviewPerReviewer ==
    \A p \in DOMAIN products :
        \A i, j \in 1..Len(products[p].reviews) :
            products[p].reviews[i].user = products[p].reviews[j].user => i = j

\* two requests of one reviewer were both answered 200 and the product holds
\* two reviews of that reviewer
C15_Witness ==
    /\ \A slot \in Slots : inflight[slot].pc = "done" /\ inflight[slot].status = 200
    /\ inflight[1].req.user = inflight[2].req.user
    /\ \E p \in DOMAIN products :
        /\ Len(products[p].reviews) = 2
        /\ products[p].reviews[1].user = products[p].reviews[2].user

\* the two requests in flight were both answered 200, and were made by two
\* reviewers for the product p
BothSucceeded(p) ==
    /\ \A slot \in {1, 2} :
        /\ inflight[slot].pc = "done"
        /\ inflight[slot].status = 200
        /\ inflight[slot].req.productId = p
    /\ inflight[1].req.user # inflight[2].req.user

\* the product holds the review of the request in the slot
Holds(p, slot) ==
    \E i \in 1..Len(products[p].reviews) :
        /\ products[p].reviews[i].user = inflight[slot].req.user
        /\ products[p].reviews[i].rating = inflight[slot].req.rating.n

\* C19: when two create-new-review requests of two reviewers for one product
\* were both answered with success, the stored product holds both reviews and
\* its ratings is the mean of the ratings of its stored reviews, however the
\* requests' load and save steps interleaved.
C19_BothReviewsAndMean ==
    \A p \in DOMAIN products :
        BothSucceeded(p) =>
            /\ Holds(p, 1) /\ Holds(p, 2)
            /\ IsMean(products[p].ratings, products[p].reviews)

\* both reviews are stored and ratings is the rating of one of them only
C19_Witness ==
    \E p \in DOMAIN products :
        /\ BothSucceeded(p)
        /\ Holds(p, 1) /\ Holds(p, 2)
        /\ Len(products[p].reviews) = 2
        /\ products[p].ratings = Divide(products[p].reviews[2].rating, 1)
        /\ products[p].reviews[1].rating # products[p].reviews[2].rating

PublicIds(descs) == {descs[i].public_id : i \in 1..Len(descs)}

\* the outcome removes (or tries to remove) the record, and before that makes
\* a destroy call for each of the ids
DestroysBeforeRemoval(o, ids, removal) ==
    \E r \in 1..Len(o.trace) :
        /\ o.trace[r].k = removal
        /\ \A id \in ids :
            \E i \in 1..(r - 1) : o.trace[i].k = "destroy" /\ o.trace[i].id = id

\* C16: for products, events and blogs alike, deleting an existing entity
\* makes a destroy call for every media descriptor of the entity, and each of
\* these calls comes before the removal of the record.
C16_MediaDeletedBeforeRecord ==
    /\ \A id \in DOMAIN products :
        /\ \A o \in AdminDeleteProductOutcomes(id) \cup DeleteShopProductMediaOutcomes(id) :
            DestroysBeforeRemoval(o, PublicIds(products[id].images \o products[id].videos),
                                  "remove-product")
        /\ \A o \in DeleteShopProductOutcomes(id) :
            DestroysBeforeRemoval(o, PublicIds(products[id].images), "remove-product")
    /\ \A id \in DOMAIN events :
        /\ \A o \in DeleteShopEventOutcomes(id) :
            DestroysBeforeRemoval(o, PublicIds(events[id].images), "remove-event")
        /\ \A o \in DeleteOwnedEventOutcomes([user |-> SellerOf[events[id].shopId], id |-> id]) :
            DestroysBeforeRemoval(o, PublicIds(events[id].images), "remove-event")
    /\ \A id \in DOMAIN blogs :
        \A o \in DeleteBlogOutcomes(id) :
            DestroysBeforeRemoval(o, BlogMedia(blogs[id]), "remove-blog")

\* the same for products and events only
C16_ProductAndEventMediaDeletedFirst ==
    /\ \A id \in DOMAIN products :
        /\ \A o \in AdminDeleteProductOutcomes(id) \cup DeleteShopProductMediaOutcomes(id) :
            DestroysBeforeRemoval(o, PublicIds(products[id].images \o products[id].videos),
                                  "remove-product")
        /\ \A o \in DeleteShopProductOutcomes(id) :
            DestroysBeforeRemoval(o, PublicIds(products[id].images), "remove-product")
    /\ \A id \in DOMAIN events :
        /\ \A o \in DeleteShopEventOutcomes(id) :
            DestroysBeforeRemoval(o, PublicIds(events[id].images), "remove-event")
        /\ \A o \in DeleteOwnedEventOutcomes([user |-> SellerOf[events[id].shopId], id |-> id]) :
            DestroysBeforeRemoval(o, PublicIds(events[id].images), "remove-event")

\* the only blog was deleted by a request that made no destroy call, and the
\* media store still holds an image while no product or event exists
C16_Witness ==
    /\ last.op = "delete-blog"
    /\ last.status = 200
    /\ trace = <<Effect("remove-blog", 1, "", TRUE)>>
    /\ blogs = <<>> /\ products = <<>> /\ events = <<>>
    /\ assets # {}

\* an upload of the outcome's request failed
UploadFailed(o) == \E i \in 1..Len(o.trace) : o.trace[i].k = "upload" /\ ~o.trace[i].ok

\* every outcome with a failed upload is answered 500 and writes no record
UploadFailureIs500(outcomes) ==
    \A o \in outcomes : UploadFailed(o) => (o.last.status = 500 /\ NoRecordWritten(o))

\* C17: in create-product, create-event and create-blog, a failure of the
\* media store during an upload aborts the request, which is answered 500.
C17_UploadFailureAnswered500 ==
    /\ \A req \in UploadCreateRequests : UploadFailureIs500(CreateProductUploadOutcomes(req))
    /\ \A req \in EventCreateRequests : UploadFailureIs500(CreateEventOutcomes(req))
    /\ \A req \in ShopEventRequests : UploadFailureIs500(CreateShopEventOutcomes(req))
    /\ \A req \in BlogRequests : UploadFailureIs500(CreateBlogOutcomes(req))

\* the same for create-product and create-event only
C17_ProductAndEventUploadFailure500 ==
    /\ \A req \in UploadCreateRequests : UploadFailureIs500(CreateProductUploadOutcomes(req))
    /\ \A req \in EventCreateRequests : UploadFailureIs500(CreateEventOutcomes(req))
    /\ \A req \in ShopEventRequests : UploadFailureIs500(CreateShopEventOutcomes(req))

\* a create-blog request whose upload failed was answered 400
C17_Witness ==
    /\ last.op = "create-blog"
    /\ last.status = 400
    /\ last.msg = "upload failed"
    /\ trace # <<>>
    /\ trace[Len(trace)].k = "upload" /\ ~trace[Len(trace)].ok

\* C18: two create-new-review requests that differ only in the authenticated
\* user get the same responses, in particular both fail or both pass the
\* order-linkage check, and leave the same orders behind: whoever the user,
\* a request that can succeed marks the lines of the order it names.
C18_LinkageIgnoresReviewer ==
    \A req \in ReviewRequests :
        \A u \in Users \ {req.user} :
            LET mine == CreateNewReviewOutcomes(req)
                theirs == CreateNewReviewOutcomes([req EXCEPT !.user = u])
            IN
            /\ {o.last : o \in theirs} = {o.last : o \in mine}
            /\ {o.orders : o \in theirs} = {o.orders : o \in mine}
            /\ (\E o \in mine : o.last.status = 200) =>
                \E o \in theirs :
                    /\ o.last.status = 200
                    /\ o.orders[req.orderId] = MarkReviewed(orders[req.orderId], req.productId)
                    /\ \E i \in 1..Len(o.products[req.productId].reviews) :
                        o.products[req.productId].reviews[i].user = u

\* both users have a review of product 1 accepted, the latest through order 1,
\* the only order with a line of product 1 (at most one of them placed it)
C18_Witness ==
    /\ last.op = "create-new-review"
    /\ last.status = 200
    /\ trace[2].id = 1
    /\ 1 \in DOMAIN products
    /\ {products[1].reviews[i].user : i \in 1..Len(products[1].reviews)} = Users
    /\ orders[1].cart[1].isReviewed

\* the user is the seller of the event's shop
OwnsEvent(user, id) ==
    events[id].shopId \in Shops /\ SellerOf[events[id].shopId] = user

\* C20: in the ownership-checking delete-shop-event handler, a request of a
\* seller who is not the seller of the event's shop is answered 403, makes no
\* destroy call and leaves the event and the media store as they were; an
\* outcome with a destroy call or a removal is one of the shop's seller.
C20_ForeignSellerCannotDelete ==
    \A req \in OwnedEventDeleteRequests :
        req.id \in DOMAIN events =>
            \A o \in DeleteOwnedEventOutcomes(req) :
                /\ ~OwnsEvent(req.user, req.id) =>
                    /\ o.last.status = 403
                    /\ o.trace = <<>>
                    /\ o.events = events
                    /\ o.assets = assets
                /\ (o.trace # <<>> \/ o.events # events \/ o.assets # assets)
                    => OwnsEvent(req.user, req.id)

\* a seller was refused the deletion of an event whose images are all still
\* in the media store
C20_Witness ==
    /\ last.op = "delete-own-shop-event"
    /\ last.status = 403
    /\ trace = <<>>
    /\ \E id \in DOMAIN events :
        /\ events[id].images # <<>>
        /\ PublicIds(events[id].images) \subseteq assets

\* the positions of an outcome's successful booking writes and of its mail sends
BookingWrites(o) ==
    {i \in 1..Len(o.trace) : o.trace[i].k = "create-booking" /\ o.trace[i].ok}

MailSends(o) == {i \in 1..Len(o.trace) : o.trace[i].k = "send-mail"}

\* the outcome holds the request's booking, on top of the ones there were
BookingPersisted(o, req) ==
    /\ DOMAIN o.bookings = DOMAIN bookings \cup {nextBookingId}
    /\ \A id \in DOMAIN bookings : o.bookings[id] = bookings[id]
    /\ o.bookings[nextBookingId] = BookingDoc(req)

\* C21: in create-booking the booking record is written before the
\* confirmation email is sent; a success response implies that the booking is
\* persisted and that the email send completed; when the email send fails the
\* request is answered with an error and the booking record stays persisted.
C21_BookingBeforeMail ==
    \A req \in BookingRequests :
        \A o \in CreateBookingOutcomes(req) :
            /\ \A j \in MailSends(o) : \E i \in BookingWrites(o) : i < j
            /\ o.last.status < 400 =>
                /\ BookingPersisted(o, req)
                /\ \E j \in MailSends(o) : o.trace[j].ok
                /\ o.mails = Append(mails, [email |-> req.email, name |-> req.name])
            /\ (\E j \in MailSends(o) : ~o.trace[j].ok) =>
                /\ o.last.status >= 400
                /\ BookingPersisted(o, req)
                /\ o.mails = mails

\* a booking was confirmed by mail, and the latest request's mail failed after
\* its booking was written: two bookings are stored for one mail
C21_Witness ==
    /\ last.op = "create-booking"
    /\ last.status = 500
    /\ Len(trace) = 2
    /\ trace[1].k = "create-booking" /\ trace[1].ok /\ trace[1].id = 2
    /\ trace[2].k = "send-mail" /\ ~trace[2].ok
    /\ DOMAIN bookings = {1, 2}
    /\ Len(mails) = 1

====
